---- MODULE Spec2Model ----
(***************************************************************************)
(* Model of the Speaker orchestrator (src/speaker.py) and of the stop /    *)
(* cleanup behaviour of the three engine variants (src/engines/*.py).      *)
(*                                                                         *)
(* Contexts: the primary context runs speak, swap_engine, shutdown, the    *)
(* volume setter, the playbackStateChanged slot and the deferred-deletion  *)
(* timers; every accepted speak() call starts one background worker that   *)
(* runs _speak_worker and, inside it, _play.  A worker step is one access  *)
(* to a shared field or one call on the player, so workers interleave with *)
(* each other and with the primary context between those steps.            *)
(*                                                                         *)
(* A temporary file is identified by the number of the speak() call that   *)
(* named it (the uuid of line 131); 0 stands for None / no source.         *)
(***************************************************************************)
EXTENDS Integers, Sequences, FiniteSets, TLC

\* Bounds of the model.
MaxCalls == 2      \* speak() calls explored
MaxEngines == 2    \* engine instances ever created (1 + swap_engine calls)

EngineKinds == {"edge", "winrt", "pyttsx3"}
VolumeInputs == {-50, 50, 150}   \* requested volumes, in percent of full scale

Calls == 1..MaxCalls

VARIABLES
    engines,        \* engine instances created so far: [kind, res]
    engine,         \* Speaker._engine: index of the active engine
    volume,         \* Speaker._volume
    sinkVolume,     \* QAudioOutput volume
    stopped,        \* Speaker._stopped
    playerState,    \* QMediaPlayer.playbackState()
    playerSource,   \* QMediaPlayer source (0: none)
    pending,        \* Speaker._pending_cleanup (0: None)
    cbQueue,        \* playbackStateChanged notifications not yet delivered
    timers,         \* paths with a QTimer.singleShot deletion scheduled
    files,          \* temporary files on disk
    nCalls,         \* speak() calls made so far
    workers,        \* per speak() call: [pc, suffix, synthEng, shutDuring]
    presented,      \* calls in the order their worker executed setSource
    mainPc,         \* position of the primary context inside shutdown
    swapOld,        \* local `old` of the latest swap_engine call (0: none yet)
    swapLog,        \* calls the latest swap_engine made on `old`
    shutdownRepeat, \* the latest shutdown() call began with the stopped flag set
    shutdownRaised, \* a shutdown() call propagated an exception
    factory,        \* a create_engine / list_available_engines run (FactorySpec)
    announcer,      \* a build_announce_text run (AnnounceSpec)
    plugin,         \* the Plugin object and its host environment (PluginSpec)
    voiceEngine     \* an engine instance under voice selection (VoiceSpec)

vars == <<engines, engine, volume, sinkVolume, stopped, playerState, playerSource,
          pending, cbQueue, timers, files, nCalls, workers, presented, mainPc,
          swapOld, swapLog, shutdownRepeat, shutdownRaised>>

\* The components the Speaker specification leaves at rest.
offSpeaker == <<factory, announcer, plugin, voiceEngine>>

\* Everything speak() could touch besides the record of the call itself.
speakerVars == <<engines, engine, volume, sinkVolume, stopped, playerState,
                 playerSource, pending, cbQueue, timers, files, presented,
                 mainPc, swapOld, swapLog, shutdownRepeat, shutdownRaised>>

\* What a repeated shutdown() must leave alone.
sessionVars == <<engines, engine, volume, sinkVolume, stopped, playerState,
                 playerSource, pending, cbQueue, timers, files>>

-----------------------------------------------------------------------------
\* Engine variants: stop() and cleanup().
\* res is the backend object the instance holds ("live") or None ("none").

\* self._engine.stop() on the pyttsx3 backend: AttributeError on None, or a backend error.
BackendStopRaises(res, fails) == res = "none" \/ fails

\* TTSEngine.stop / TTSEngine.cleanup: empty bodies (EdgeTTSEngine, WinRTEngine.stop).
BaseStop == [raised |-> FALSE, err |-> FALSE]

BaseCleanup(res) == [raised |-> FALSE, err |-> FALSE, res |-> res]

WinRTCleanup(res) == [raised |-> FALSE, err |-> FALSE, res |-> "none"]

Pyttsx3StopUnguarded(res, fails) ==
    [raised |-> BackendStopRaises(res, fails), err |-> FALSE]

Pyttsx3Stop(res, fails) ==
    [raised |-> FALSE, err |-> BackendStopRaises(res, fails)]

Pyttsx3CleanupUnguarded(res, fails) ==
    [raised |-> BackendStopRaises(res, fails), err |-> FALSE,
     res |-> IF BackendStopRaises(res, fails) THEN res ELSE "none"]

Pyttsx3Cleanup(res, fails) ==
    [raised |-> FALSE, err |-> BackendStopRaises(res, fails), res |-> "none"]

EngineStop(e, fails) ==
    IF e.kind = "pyttsx3" THEN Pyttsx3Stop(e.res, fails) ELSE BaseStop

EngineCleanup(e, fails) ==
    CASE e.kind = "pyttsx3" -> Pyttsx3Cleanup(e.res, fails)
      [] e.kind = "winrt"   -> WinRTCleanup(e.res)
      [] OTHER              -> BaseCleanup(e.res)

\* synthesize() dereferences the backend object first: None raises at once.
EngineUsable(e) == e.kind = "edge" \/ e.res = "live"

\* cleanup() has released whatever the variant holds.
EngineCleaned(e) == e.kind = "edge" \/ e.res = "none"

-----------------------------------------------------------------------------
\* Volume clamp, max(0.0, min(1.0, v)), in percent.
Clamp(v) == IF v < 0 THEN 0 ELSE IF v > 100 THEN 100 ELSE v

\* Temp-file extension chosen from the active engine's name.
SuffixFor(kind) == IF kind = "edge" THEN "mp3" ELSE "wav"

-----------------------------------------------------------------------------
\* The player.  ev lists the playbackStateChanged notifications the call emits.

PlayerStop(st) ==
    IF st = "Playing" THEN [state |-> "Stopped", ev |-> <<"Stopped">>]
    ELSE [state |-> st, ev |-> <<>>]

PlayerSetSourceKeepsLoaded(st, src, p) ==
    [state |-> st, source |-> IF src = 0 THEN p ELSE src, ev |-> <<>>]

\* setSource ends a playback in progress before it replaces the source.
PlayerSetSource(st, src, p) ==
    [state |-> PlayerStop(st).state, source |-> p, ev |-> PlayerStop(st).ev]

\* play() starts the current source when its file can be opened.
PlayerPlay(st, src, fs) ==
    IF st # "Playing" /\ src \in fs THEN [state |-> "Playing", ev |-> <<"Playing">>]
    ELSE [state |-> st, ev |-> <<>>]

\* The player has the file open.
Held(p) == playerState = "Playing" /\ playerSource = p

\* _safe_unlink: path.unlink(missing_ok=True); a failure (file still open on a
\* platform that locks open files) is logged and the file stays.
SafeUnlink(p, fs, held, ok) == IF held /\ ~ok THEN fs ELSE fs \ {p}

ExceptKeepsFile(p, fs, held, ok) == fs

\* The except branch of _speak_worker: if tmp_path is not None: _safe_unlink(tmp_path).
ExceptCleanup(p, fs, held, ok) == SafeUnlink(p, fs, held, ok)

-----------------------------------------------------------------------------
\* A component that takes no part in the specification at hand.
Off == [pc |-> "off"]

NoWorker == [pc |-> "none", suffix |-> "-", synthEng |-> 0, shutDuring |-> FALSE,
             vol |-> 0]

Init ==
    /\ \E k \in EngineKinds : engines = <<[kind |-> k, res |-> "live"]>>
    /\ engine = 1
    /\ \E v \in VolumeInputs : volume = Clamp(v) /\ sinkVolume = Clamp(v)
    /\ stopped = FALSE
    /\ playerState = "Stopped"
    /\ playerSource = 0
    /\ pending = 0
    /\ cbQueue = <<>>
    /\ timers = {}
    /\ files = {}
    /\ nCalls = 0
    /\ workers = [w \in Calls |-> NoWorker]
    /\ presented = <<>>
    /\ mainPc = "idle"
    /\ swapOld = 0
    /\ swapLog = <<>>
    /\ shutdownRepeat = FALSE
    /\ shutdownRaised = FALSE
    /\ factory = Off
    /\ announcer = Off
    /\ plugin = Off
    /\ voiceEngine = Off

-----------------------------------------------------------------------------
\* Primary context.

SpeakNeverSkips == FALSE

\* speak(): if self._stopped: return.
SpeakSkips == stopped

Speak ==
    /\ mainPc = "idle"
    /\ nCalls < MaxCalls
    /\ nCalls' = nCalls + 1
    /\ workers' = [workers EXCEPT ![nCalls + 1].pc =
                      IF SpeakSkips THEN "skipped" ELSE "start"]
    /\ UNCHANGED speakerVars
    /\ UNCHANGED offSpeaker

SetVolume(v) ==
    /\ mainPc = "idle"
    /\ volume' = Clamp(v)
    /\ sinkVolume' = Clamp(v)
    /\ UNCHANGED <<engines, engine, stopped, playerState, playerSource, pending,
                   cbQueue, timers, files, nCalls, workers, presented, mainPc,
                   swapOld, swapLog, shutdownRepeat, shutdownRaised>>
    /\ UNCHANGED offSpeaker

\* swap_engine: old = self._engine; self._engine = new_engine;
\* try: old.stop(); old.cleanup() except Exception: log.
\* The log keeps what `old` received; "stop!" is a stop() whose backend call failed.
SwapCalls(old, f1, f2) ==
    LET s == EngineStop(old, f1)
        c == EngineCleanup(old, f2)
    IN IF s.raised
       THEN [log |-> <<"stop!">>, res |-> old.res]
       ELSE [log |-> <<IF s.err THEN "stop!" ELSE "stop", "cleanup">>, res |-> c.res]

SwapEngine(k, f1, f2) ==
    /\ mainPc = "idle"
    /\ Len(engines) < MaxEngines
    /\ swapOld' = engine
    /\ engine' = Len(engines) + 1
    /\ LET r == SwapCalls(engines[engine], f1, f2)
       IN /\ swapLog' = r.log
          /\ engines' = Append([engines EXCEPT ![engine].res = r.res],
                               [kind |-> k, res |-> "live"])
    /\ UNCHANGED <<volume, sinkVolume, stopped, playerState, playerSource, pending,
                   cbQueue, timers, files, nCalls, workers, presented, mainPc,
                   shutdownRepeat, shutdownRaised>>
    /\ UNCHANGED offSpeaker

\* shutdown, lines 111-112: self._stopped = True; self._engine.stop().
ShutdownBegin(f) ==
    /\ mainPc = "idle"
    /\ stopped' = TRUE
    /\ shutdownRepeat' = stopped
    /\ workers' = [w \in Calls |->
                     IF workers[w].pc = "in_synth"
                     THEN [workers[w] EXCEPT !.shutDuring = TRUE]
                     ELSE workers[w]]
    /\ LET s == EngineStop(engines[engine], f)
       IN /\ shutdownRaised' = (shutdownRaised \/ s.raised)
          /\ mainPc' = IF s.raised THEN "idle" ELSE "shutdown_player"
    /\ UNCHANGED <<engines, engine, volume, sinkVolume, playerState, playerSource,
                   pending, cbQueue, timers, files, nCalls, presented, swapOld, swapLog>>
    /\ UNCHANGED offSpeaker

\* shutdown, lines 114-119: self._player.stop().
ShutdownPlayer ==
    /\ mainPc = "shutdown_player"
    /\ LET r == PlayerStop(playerState)
       IN /\ playerState' = r.state
          /\ cbQueue' = cbQueue \o r.ev
    /\ mainPc' = "shutdown_cleanup"
    /\ UNCHANGED <<engines, engine, volume, sinkVolume, stopped, playerSource, pending,
                   timers, files, nCalls, workers, presented, swapOld, swapLog,
                   shutdownRepeat, shutdownRaised>>
    /\ UNCHANGED offSpeaker

\* shutdown, line 121: self._engine.cleanup().
ShutdownCleanup(f) ==
    /\ mainPc = "shutdown_cleanup"
    /\ LET c == EngineCleanup(engines[engine], f)
       IN /\ engines' = [engines EXCEPT ![engine].res = c.res]
          /\ shutdownRaised' = (shutdownRaised \/ c.raised)
    /\ mainPc' = "idle"
    /\ UNCHANGED <<engine, volume, sinkVolume, stopped, playerState, playerSource,
                   pending, cbQueue, timers, files, nCalls, workers, presented,
                   swapOld, swapLog, shutdownRepeat>>
    /\ UNCHANGED offSpeaker

\* _on_playback_state_changed(state), for the oldest undelivered notification.
\* The slot runs on the primary context: from its event loop, or directly inside
\* the player.stop() call shutdown has just made.
OnPlaybackStateChanged ==
    /\ mainPc \in {"idle", "shutdown_cleanup"}
    /\ cbQueue # <<>>
    /\ cbQueue' = Tail(cbQueue)
    /\ IF Head(cbQueue) = "Stopped" /\ pending # 0
       THEN /\ timers' = timers \cup {pending}
            /\ pending' = 0
       ELSE UNCHANGED <<timers, pending>>
    /\ UNCHANGED <<engines, engine, volume, sinkVolume, stopped, playerState,
                   playerSource, files, nCalls, workers, presented, mainPc,
                   swapOld, swapLog, shutdownRepeat, shutdownRaised>>
    /\ UNCHANGED offSpeaker

\* The single-shot timer of line 56 fires: self._safe_unlink(tmp).
TimerFire(p, ok) ==
    /\ mainPc = "idle"
    /\ p \in timers
    /\ timers' = timers \ {p}
    /\ files' = SafeUnlink(p, files, Held(p), ok)
    /\ UNCHANGED <<engines, engine, volume, sinkVolume, stopped, playerState,
                   playerSource, pending, cbQueue, nCalls, workers, presented,
                   mainPc, swapOld, swapLog, shutdownRepeat, shutdownRaised>>
    /\ UNCHANGED offSpeaker

\* The audio reaches its end: the player goes to StoppedState by itself.
PlaybackEnds ==
    /\ playerState = "Playing"
    /\ playerState' = "Stopped"
    /\ cbQueue' = Append(cbQueue, "Stopped")
    /\ UNCHANGED <<engines, engine, volume, sinkVolume, stopped, playerSource, pending,
                   timers, files, nCalls, workers, presented, mainPc, swapOld,
                   swapLog, shutdownRepeat, shutdownRaised>>
    /\ UNCHANGED offSpeaker

-----------------------------------------------------------------------------
\* Background workers: _speak_worker and _play.

workerFrame == <<engines, engine, volume, stopped, nCalls, mainPc, swapOld, swapLog,
                 shutdownRepeat, shutdownRaised>>

Goto(w, to) == workers' = [workers EXCEPT ![w].pc = to]

\* lines 130-131: suffix and path from self._engine.name.
WorkerName(w) ==
    /\ workers[w].pc = "start"
    /\ workers' = [workers EXCEPT ![w].pc = "named",
                                  ![w].suffix = SuffixFor(engines[engine].kind)]
    /\ UNCHANGED <<workerFrame, sinkVolume, playerState, playerSource, pending,
                   cbQueue, timers, files, presented>>
    /\ UNCHANGED offSpeaker

\* line 136: self._engine.synthesize(text, tmp_path) is entered.
WorkerSynthCall(w) ==
    /\ workers[w].pc = "named"
    /\ workers' = [workers EXCEPT ![w].synthEng = engine,
                                  ![w].pc = IF EngineUsable(engines[engine])
                                            THEN "in_synth" ELSE "except"]
    /\ UNCHANGED <<workerFrame, sinkVolume, playerState, playerSource, pending,
                   cbQueue, timers, files, presented>>
    /\ UNCHANGED offSpeaker

\* synthesize returns: the audio file is written.
WorkerSynthReturn(w) ==
    /\ workers[w].pc = "in_synth"
    /\ files' = files \cup {w}
    /\ Goto(w, "check")
    /\ UNCHANGED <<workerFrame, sinkVolume, playerState, playerSource, pending,
                   cbQueue, timers, presented>>
    /\ UNCHANGED offSpeaker

\* synthesize raises, with or without a partial file left behind.
WorkerSynthRaise(w, partial) ==
    /\ workers[w].pc = "in_synth"
    /\ files' = IF partial THEN files \cup {w} ELSE files
    /\ Goto(w, "except")
    /\ UNCHANGED <<workerFrame, sinkVolume, playerState, playerSource, pending,
                   cbQueue, timers, presented>>
    /\ UNCHANGED offSpeaker

\* lines 149-154: except Exception: log; _safe_unlink(tmp_path).
WorkerExcept(w, ok) ==
    /\ workers[w].pc = "except"
    /\ files' = ExceptCleanup(w, files, Held(w), ok)
    /\ Goto(w, "failed")
    /\ UNCHANGED <<workerFrame, sinkVolume, playerState, playerSource, pending,
                   cbQueue, timers, presented>>
    /\ UNCHANGED offSpeaker

\* lines 140-142: if self._stopped: return.
WorkerCheckStopped(w) ==
    /\ workers[w].pc = "check"
    /\ Goto(w, IF stopped THEN "discarded" ELSE "play_check")
    /\ UNCHANGED <<workerFrame, sinkVolume, playerState, playerSource, pending,
                   cbQueue, timers, files, presented>>
    /\ UNCHANGED offSpeaker

\* _play, lines 166-167: if playbackState() == PlayingState: stop().
PlayCheck(w) ==
    /\ workers[w].pc = "play_check"
    /\ LET r == PlayerStop(playerState)
       IN /\ playerState' = r.state
          /\ cbQueue' = cbQueue \o r.ev
    /\ Goto(w, "play_pending")
    /\ UNCHANGED <<workerFrame, sinkVolume, playerSource, pending, timers, files,
                   presented>>
    /\ UNCHANGED offSpeaker

\* _play, lines 169-170: self._pending_cleanup = audio_path, and the argument
\* of setVolume, self._volume, is read.
PlayPending(w) ==
    /\ workers[w].pc = "play_pending"
    /\ pending' = w
    /\ workers' = [workers EXCEPT ![w].pc = "play_volume", ![w].vol = volume]
    /\ UNCHANGED <<workerFrame, sinkVolume, playerState, playerSource, cbQueue,
                   timers, files, presented>>
    /\ UNCHANGED offSpeaker

\* _play, line 170: self._audio_output.setVolume(...) with the value read.
PlayVolume(w) ==
    /\ workers[w].pc = "play_volume"
    /\ sinkVolume' = workers[w].vol
    /\ workers' = [workers EXCEPT ![w].pc = "play_source", ![w].vol = 0]
    /\ UNCHANGED <<workerFrame, pending, playerState, playerSource, cbQueue, timers, files,
                   presented>>
    /\ UNCHANGED offSpeaker

\* _play, line 173: self._player.setSource(...).
PlaySource(w) ==
    /\ workers[w].pc = "play_source"
    /\ LET r == PlayerSetSource(playerState, playerSource, w)
       IN /\ playerState' = r.state
          /\ playerSource' = r.source
          /\ cbQueue' = cbQueue \o r.ev
    /\ presented' = Append(presented, w)
    /\ Goto(w, "play_play")
    /\ UNCHANGED <<workerFrame, sinkVolume, pending, timers, files>>
    /\ UNCHANGED offSpeaker

\* _play, line 174: self._player.play().
PlayPlay(w) ==
    /\ workers[w].pc = "play_play"
    /\ LET r == PlayerPlay(playerState, playerSource, files)
       IN /\ playerState' = r.state
          /\ cbQueue' = cbQueue \o r.ev
    /\ Goto(w, "played")
    /\ UNCHANGED <<workerFrame, sinkVolume, playerSource, pending, timers, files,
                   presented>>
    /\ UNCHANGED offSpeaker

-----------------------------------------------------------------------------
Next ==
    \/ Speak
    \/ \E v \in VolumeInputs : SetVolume(v)
    \/ \E k \in EngineKinds, f1, f2 \in BOOLEAN : SwapEngine(k, f1, f2)
    \/ \E f \in BOOLEAN : ShutdownBegin(f)
    \/ ShutdownPlayer
    \/ \E f \in BOOLEAN : ShutdownCleanup(f)
    \/ OnPlaybackStateChanged
    \/ \E p \in Calls, ok \in BOOLEAN : TimerFire(p, ok)
    \/ PlaybackEnds
    \/ \E w \in Calls : WorkerName(w)
    \/ \E w \in Calls : WorkerSynthCall(w)
    \/ \E w \in Calls : WorkerSynthReturn(w)
    \/ \E w \in Calls, partial \in BOOLEAN : WorkerSynthRaise(w, partial)
    \/ \E w \in Calls, ok \in BOOLEAN : WorkerExcept(w, ok)
    \/ \E w \in Calls : WorkerCheckStopped(w)
    \/ \E w \in Calls : PlayCheck(w)
    \/ \E w \in Calls : PlayPending(w)
    \/ \E w \in Calls : PlayVolume(w)
    \/ \E w \in Calls : PlaySource(w)
    \/ \E w \in Calls : PlayPlay(w)

Spec == Init /\ [][Next]_vars

-----------------------------------------------------------------------------
\* Observations used by the properties below.

Finished(w) == workers[w].pc \in {"played", "discarded", "failed"}

Presented(w) == \E i \in 1..Len(presented) : presented[i] = w

\* Nothing is left that could still delete a file: every worker has ended, the
\* player is stopped, no notification or timer is outstanding, no path is pending.
Settled ==
    /\ mainPc = "idle"
    /\ \A w \in Calls : workers[w].pc \in {"none", "skipped"} \/ Finished(w)
    /\ playerState = "Stopped"
    /\ cbQueue = <<>>
    /\ timers = {}
    /\ pending = 0

\* The state a completed shutdown() is meant to leave.
ShutDownState ==
    /\ stopped
    /\ playerState = "Stopped"
    /\ EngineCleaned(engines[engine])

-----------------------------------------------------------------------------
\* C1: a worker that was inside synthesize when shutdown() set the stopped flag
\* ends without having started playback and with its temporary file deleted.
C1_DiscardDeletesTempFile ==
    \A w \in Calls :
        (Finished(w) /\ workers[w].shutDuring) =>
            (workers[w].pc # "played" /\ w \notin files)

\* C2: every temporary file is eventually deleted; stated on the states from
\* which no deletion can follow: once the Speaker has settled, no temporary
\* file is left on disk.
C2_SettledLeavesNoTempFile == Settled => files = {}

\* C3: a temporary file is never deleted while it is the source the player is
\* playing.
C3_NoDeleteWhilePlaying ==
    [][\A p \in Calls : (p \in files /\ p \notin files') => ~Held(p)]_vars

\* C4: when synthesize raises, the worker ends with its temporary file deleted
\* and the file was never handed to the player, to the pending-cleanup path or
\* to a deletion timer.
C4_SynthFailureCleansUp ==
    \A w \in Calls :
        workers[w].pc = "failed" =>
            /\ w \notin files
            /\ ~Presented(w)
            /\ playerSource # w
            /\ pending # w
            /\ w \notin timers

C4_Witness ==
    \E w \in Calls :
        /\ workers[w].pc = "failed"
        /\ workers[w].synthEng # 0
        /\ EngineUsable(engines[workers[w].synthEng])

\* C5: once the stopped flag is set it stays set, and no step starts a playback
\* while it is set.
C5_StoppedIsFinal ==
    [][stopped =>
         /\ stopped'
         /\ ~(playerState # "Playing" /\ playerState' = "Playing")]_vars

\* C6: a speak() call made while the stopped flag is set starts no worker and
\* changes nothing of the Speaker; the skipped call never owns a file.
C6_SpeakWhenStoppedIsNoOp ==
    [][/\ (nCalls' = nCalls + 1 /\ stopped) =>
             /\ workers'[nCalls + 1].pc = "skipped"
             /\ \A w \in Calls \ {nCalls + 1} : workers'[w] = workers[w]
             /\ UNCHANGED speakerVars
       /\ \A w \in Calls : workers[w].pc = "skipped" =>
             (workers'[w] = workers[w] /\ w \notin files')]_vars

C6_Witness == \E w \in Calls : workers[w].pc = "skipped" /\ stopped

C8_SecondCallWins ==
    (workers[1].pc = "played" /\ workers[2].pc = "played") => playerSource = 2

\* C8 (amended): after two speak() calls whose workers both reached playback,
\* the source left at the player is that of the call whose worker executed
\* setSource last, whichever call that is.
C8_LastPresentedWins ==
    (workers[1].pc = "played" /\ workers[2].pc = "played") =>
        /\ Len(presented) >= 2
        /\ playerSource = presented[Len(presented)]

C8_Witness ==
    /\ workers[1].pc = "played"
    /\ workers[2].pc = "played"
    /\ ~stopped
    /\ playerSource = 1

\* C9: shutdown() never raises; it sets the stopped flag, stops the player and
\* cleans the engine up; and a shutdown() step taken in the state a completed
\* shutdown leaves changes nothing.
C9_ShutdownIdempotent ==
    [][/\ ~shutdownRaised'
       /\ (mainPc = "shutdown_player" /\ mainPc' = "shutdown_cleanup") =>
             (stopped' /\ playerState' = "Stopped")
       /\ (mainPc = "shutdown_cleanup" /\ mainPc' = "idle") =>
             (stopped' /\ EngineCleaned(engines'[engine']))
       /\ (mainPc' # mainPc /\ ShutDownState) => UNCHANGED sessionVars]_vars

C9_Witness ==
    /\ shutdownRepeat
    /\ mainPc = "idle"
    /\ engines[engine].kind = "pyttsx3"
    /\ ShutDownState

\* C10: after swap_engine the new engine is the active one and the previously
\* active engine has received stop() and then cleanup(), once each, also when
\* the stop() of the old engine met a failure.
C10_SwapStopsThenCleansOld ==
    swapOld # 0 =>
        /\ engine = Len(engines)
        /\ engine # swapOld
        /\ swapLog \in {<<"stop", "cleanup">>, <<"stop!", "cleanup">>}
        /\ EngineCleaned(engines[swapOld])

C10_Witness ==
    /\ swapOld # 0
    /\ engine = swapOld + 1
    /\ swapLog = <<"stop!", "cleanup">>

\* C18: the Speaker's volume is within [0.0, 1.0] (0..100 percent) in
\* every reachable state, whatever the initial value and the values
\* assigned, and once assigned the audio sink's volume is the Speaker's
\* volume.
C18_VolumeClampedSinkInStep ==
    /\ volume \in 0..100
    /\ sinkVolume = volume

\* The positions of a worker inside _play, where it is about to act on
\* the player or on the pending-cleanup path.
PlayPcs == {"play_check", "play_pending", "play_volume", "play_source", "play_play"}

\* C22: every stop, setSource and play on the player and every write of
\* the pending-cleanup path is made by the primary context: no step of a
\* background worker changes the player's state, its source or the
\* pending-cleanup path.
C22_PlayerOnPrimaryContextOnly ==
    [][\A w \in Calls :
          (workers[w].pc \in PlayPcs /\ workers'[w].pc # workers[w].pc) =>
              /\ playerState' = playerState
              /\ playerSource' = playerSource
              /\ pending' = pending]_vars

\* C23: the extension a worker chose is that of the engine instance
\* whose synthesize it then calls, .mp3 exactly for an edge engine, also
\* when swap_engine ran between the two.
C23_SuffixMatchesSynthEngine ==
    \A w \in Calls :
        workers[w].synthEng # 0 =>
            workers[w].suffix = SuffixFor(engines[workers[w].synthEng].kind)

\* C24: the contexts exclude each other on the shared fields: at most
\* one worker is inside _play at a time, and a pending-cleanup path is
\* replaced only once it has been handed to deferred deletion.
C24_ExclusiveAccess ==
    /\ [](Cardinality({w \in Calls : workers[w].pc \in PlayPcs}) <= 1)
    /\ [][(pending # 0 /\ pending' # pending) => pending \in timers']_vars

\* ---------------------------------------------------------------------
\* The engine factory (src/engines/__init__.py).
\* ---------------------------------------------------------------------

\* ENGINE_REGISTRY, in priority order.
ENGINE_REGISTRY == <<"edge", "winrt", "pyttsx3">>

\* The preferences create_engine is called with: "auto", the three
\* registered names, and a name no variant carries.
Preferences == {"auto", "edge", "winrt", "pyttsx3", "sapi"}

\* What cls.is_available() does in the environment at hand: it returns
\* True, returns False, or lets an exception out (the checks catch
\* ImportError, and RuntimeError for pyttsx3, and nothing else).
AvailOutcomes == {"yes", "no", "raise"}

\* The environments of the factory: per variant the outcome of its
\* availability check and whether its constructor returns.
FactoryEnvs == [avail : [EngineKinds -> AvailOutcomes],
                ctor  : [EngineKinds -> BOOLEAN]]

Probe(k) == [kind |-> k, op |-> "is_available"]

Construct(k) == [kind |-> k, op |-> "ctor"]

Returned(res, calls) == [outcome |-> "returned", result |-> res, calls |-> calls]

Raised(calls) == [outcome |-> "raised", result |-> "None", calls |-> calls]

RECURSIVE AutoFrom(_, _, _)

\* The body of the explicit branch for the variant whose name matched
\* (lines 36-46) with the unavailable case falling into the priority
\* search instead of returning None.
ExplicitMatchFallsBack(k, env) ==
    IF env.avail[k] = "raise" THEN Raised(<<Probe(k)>>)
    ELSE IF env.avail[k] = "yes"
         THEN IF env.ctor[k]
              THEN Returned(k, <<Probe(k), Construct(k)>>)
              ELSE Returned("None", <<Probe(k), Construct(k)>>)
         ELSE AutoFrom(1, env, <<Probe(k)>>)

\* The body of the explicit branch for the variant whose name matched
\* (lines 36-46): the availability check is outside the try, the
\* constructor inside it, and both failures return None.
ExplicitMatch(k, env) ==
    IF env.avail[k] = "raise" THEN Raised(<<Probe(k)>>)
    ELSE IF env.avail[k] = "yes"
         THEN IF env.ctor[k]
              THEN Returned(k, <<Probe(k), Construct(k)>>)
              ELSE Returned("None", <<Probe(k), Construct(k)>>)
         ELSE Returned("None", <<Probe(k)>>)

RECURSIVE ExplicitFrom(_, _, _)

\* The loop of the explicit branch (lines 33-48), from registry index i.
ExplicitFrom(i, preference, env) ==
    IF i > Len(ENGINE_REGISTRY) THEN Returned("None", <<>>)
    ELSE IF ENGINE_REGISTRY[i] = preference
         THEN ExplicitMatch(ENGINE_REGISTRY[i], env)
         ELSE ExplicitFrom(i + 1, preference, env)

\* One iteration of the priority search with a failed construction
\* ending the search (return None in place of continue).
AutoStepGivesUp(i, env, calls) ==
    LET k == ENGINE_REGISTRY[i] IN
    IF env.avail[k] = "raise" THEN Raised(Append(calls, Probe(k)))
    ELSE IF env.avail[k] = "yes"
         THEN IF env.ctor[k]
              THEN Returned(k, calls \o <<Probe(k), Construct(k)>>)
              ELSE Returned("None", calls \o <<Probe(k), Construct(k)>>)
         ELSE AutoFrom(i + 1, env, Append(calls, Probe(k)))

\* One iteration of the priority search (lines 52-63).
AutoStep(i, env, calls) ==
    LET k == ENGINE_REGISTRY[i] IN
    IF env.avail[k] = "raise" THEN Raised(Append(calls, Probe(k)))
    ELSE IF env.avail[k] = "yes"
         THEN IF env.ctor[k]
              THEN Returned(k, calls \o <<Probe(k), Construct(k)>>)
              ELSE AutoFrom(i + 1, env, calls \o <<Probe(k), Construct(k)>>)
         ELSE AutoFrom(i + 1, env, Append(calls, Probe(k)))

\* The priority search (lines 51-66), from registry index i.
AutoFrom(i, env, calls) ==
    IF i > Len(ENGINE_REGISTRY) THEN Returned("None", calls)
    ELSE AutoStep(i, env, calls)

\* create_engine(preference, voice): the variant it returns ("None" for
\* None), whether it returned at all, and the availability checks and
\* constructors it invoked, in order.  The voice only selects the
\* constructor's argument list (lines 39 and 56).
create_engine(preference, env) ==
    IF preference # "auto"
    THEN ExplicitFrom(1, preference, env)
    ELSE AutoFrom(1, env, <<>>)

\* The availability string of one list entry, the check's exception
\* being let out of list_available_engines.
ListEntryUnguarded(k, env) ==
    IF env.avail[k] = "yes" THEN "true"
    ELSE IF env.avail[k] = "no" THEN "false" ELSE "raise"

\* The availability string of one list entry (lines 76-81): the check
\* runs inside try/except and a raise leaves available at False.
ListEntry(k, env) ==
    IF env.avail[k] = "yes" THEN "true" ELSE "false"

\* list_available_engines(): "raised" when an entry's check escaped.
list_available_engines(env) ==
    LET entries == [i \in 1..Len(ENGINE_REGISTRY) |->
                       [name |-> ENGINE_REGISTRY[i],
                        available |-> ListEntry(ENGINE_REGISTRY[i], env)]]
    IN IF \E i \in 1..Len(ENGINE_REGISTRY) : entries[i].available = "raise"
       THEN [outcome |-> "raised", entries |-> <<>>]
       ELSE [outcome |-> "returned", entries |-> entries]

\* No Speaker has been constructed: its variables hold their rest values.
SpeakerAtRest ==
    /\ engines = <<>> /\ engine = 0
    /\ volume = 0 /\ sinkVolume = 0
    /\ stopped = FALSE
    /\ playerState = "Stopped" /\ playerSource = 0 /\ pending = 0
    /\ cbQueue = <<>> /\ timers = {} /\ files = {}
    /\ nCalls = 0 /\ workers = [w \in Calls |-> NoWorker]
    /\ presented = <<>> /\ mainPc = "idle"
    /\ swapOld = 0 /\ swapLog = <<>>
    /\ shutdownRepeat = FALSE /\ shutdownRaised = FALSE

FactoryInit ==
    /\ \E env \in FactoryEnvs, p \in Preferences :
          factory = [pc |-> "ready", env |-> env, preference |-> p,
                     created |-> Returned("None", <<>>),
                     listed |-> [outcome |-> "returned", entries |-> <<>>]]
    /\ SpeakerAtRest
    /\ voiceEngine = Off
    /\ announcer = Off
    /\ plugin = Off

\* A caller asks the factory for an engine.
CallCreateEngine ==
    /\ factory.pc = "ready"
    /\ factory' = [factory EXCEPT
                     !.pc = "created",
                     !.created = create_engine(factory.preference, factory.env)]
    /\ UNCHANGED <<vars, announcer, plugin, voiceEngine>>

\* A caller asks the factory for the availability list.
CallListAvailableEngines ==
    /\ factory.pc = "created"
    /\ factory' = [factory EXCEPT
                     !.pc = "listed",
                     !.listed = list_available_engines(factory.env)]
    /\ UNCHANGED <<vars, announcer, plugin, voiceEngine>>

FactoryNext ==
    \/ CallCreateEngine
    \/ CallListAvailableEngines

allVars == <<vars, factory, announcer, plugin, voiceEngine>>

FactorySpec == FactoryInit /\ [][FactoryNext]_allVars


\* The variants that are both available and constructible.
Good(env) == {k \in EngineKinds : env.avail[k] = "yes" /\ env.ctor[k]}

\* The registry positions before that of variant k.
Before(k) == {ENGINE_REGISTRY[j] : j \in {i \in 1..Len(ENGINE_REGISTRY) :
                 \E n \in 1..Len(ENGINE_REGISTRY) :
                     ENGINE_REGISTRY[n] = k /\ i < n}}

Invoked(calls) == {calls[i].kind : i \in 1..Len(calls)}

\* C11: create_engine with a preference other than "auto" invokes the
\* availability check and the constructor of no variant but the one
\* named, never returns another variant, returns an instance of the
\* named variant exactly when that variant is registered, available and
\* constructible, and returns None in every other case in which the
\* named variant's availability check answers.
C11_ExplicitPreferenceOnly ==
    (factory.pc \in {"created", "listed"} /\ factory.preference # "auto") =>
        LET p == factory.preference
            r == factory.created
        IN  /\ Invoked(r.calls) \subseteq {p}
            /\ r.result \in {p, "None"}
            /\ (r.result = p) <=> (p \in Good(factory.env))
            /\ (r.outcome = "raised") <=>
                   (p \in EngineKinds /\ factory.env.avail[p] = "raise")

\* An explicit preference for an unavailable variant, a constructible
\* variant of higher priority being at hand, gave None.
C11_Witness ==
    /\ factory.pc = "created"
    /\ factory.preference = "winrt"
    /\ factory.env.avail["winrt"] = "no"
    /\ "edge" \in Good(factory.env)
    /\ factory.created = Returned("None", <<Probe("winrt")>>)

\* C12: create_engine("auto") returns the first variant in the order
\* edge, winrt, pyttsx3 that is available and constructible, continuing
\* past a variant whose construction raises, and returns None exactly
\* when no variant is both, provided every availability check it
\* reaches answers.
C12_AutoPicksFirstGood ==
    (factory.pc \in {"created", "listed"} /\ factory.preference = "auto") =>
        LET r == factory.created
            env == factory.env
            reachedRaise == \E k \in EngineKinds :
                               /\ env.avail[k] = "raise"
                               /\ Before(k) \cap Good(env) = {}
                               /\ \A j \in Before(k) : env.avail[j] # "raise"
        IN  /\ (r.outcome = "raised") <=> reachedRaise
            /\ r.outcome = "returned" =>
                  /\ (r.result = "None") <=> (Good(env) = {})
                  /\ r.result # "None" =>
                        /\ r.result \in Good(env)
                        /\ Before(r.result) \cap Good(env) = {}

\* The search went past a variant whose construction raised and past
\* an unavailable one, and returned the last variant.
C12_Witness ==
    /\ factory.pc = "created"
    /\ factory.preference = "auto"
    /\ factory.env.avail["edge"] = "yes" /\ ~factory.env.ctor["edge"]
    /\ factory.env.avail["winrt"] = "no"
    /\ factory.created.result = "pyttsx3"

\* C20: list_available_engines returns one entry per registered
\* variant, in registry order, "true" exactly for the variants whose own
\* check returns True; a variant whose check raises is reported "false"
\* and the other entries are as they are without the raise.
C20_ListIsolatesChecks ==
    factory.pc = "listed" =>
        /\ factory.listed.outcome = "returned"
        /\ Len(factory.listed.entries) = Len(ENGINE_REGISTRY)
        /\ \A i \in 1..Len(ENGINE_REGISTRY) :
              /\ factory.listed.entries[i].name = ENGINE_REGISTRY[i]
              /\ factory.listed.entries[i].available =
                    (IF factory.env.avail[ENGINE_REGISTRY[i]] = "yes"
                     THEN "true" ELSE "false")

\* The check of the second variant raised; the first and the third are
\* listed with their own answers.
C20_Witness ==
    /\ factory.pc = "listed"
    /\ factory.env.avail = [k \in EngineKinds |->
                              IF k = "edge" THEN "yes"
                              ELSE IF k = "winrt" THEN "raise" ELSE "no"]
    /\ factory.listed.entries =
          <<[name |-> "edge", available |-> "true"],
            [name |-> "winrt", available |-> "false"],
            [name |-> "pyttsx3", available |-> "false"]>>


\* ---------------------------------------------------------------------
\* The announcement text builder (src/announcer.py, src/config.py).
\*
\* A text is a sequence of characters, an unbroken run of ordinary
\* characters being written as one element; a template is a sequence of
\* literal characters and replacement fields.  "U3002" is the
\* ideographic full stop, "UFF0C" the fullwidth comma, and the words of
\* the default templates are written in pinyin.
\* ---------------------------------------------------------------------

\* The keys of DEFAULT_TEMPLATES.
ActivityKeys == {"class", "activity", "break", "free", "preparation"}

\* _PROVIDER_SUFFIX_MAP: suffix -> activity key.
PROVIDER_SUFFIX_MAP ==
    [sfx \in {".class", ".activity", ".break", ".free", ".preparation"} |->
        CASE sfx = ".class" -> "class"
          [] sfx = ".activity" -> "activity"
          [] sfx = ".break" -> "break"
          [] sfx = ".free" -> "free"
          [] sfx = ".preparation" -> "preparation"]

\* The keyword arguments of template.format (lines 94-103).
FieldNames == {"title", "message", "subject", "teacher", "location",
               "next_subject", "next_teacher", "next_location"}

\* The keys read from the runtime context (lines 71-76).
CtxNames == FieldNames \ {"title", "message"}

\* The characters str.strip() removes: the space, and "TAB" for every
\* other whitespace character.
Whitespace == {" ", "TAB"}

\* The characters of result.strip("。，, .") (line 105).
PunctStrip == {"U3002", "UFF0C", ",", " ", "."}

Lit(c) == [t |-> "lit", v |-> c]

\* {name}
Field(n) == [t |-> "field", v |-> n]

\* {name.x}
AttrField(n) == [t |-> "attr", v |-> n]

\* {name[0]}
IndexField(n) == [t |-> "index", v |-> n]

\* {} or {0}
Positional == [t |-> "positional", v |-> ""]

\* A single { or } that opens or closes no field.
LoneBrace == [t |-> "brace", v |-> ""]

\* DEFAULT_TEMPLATES (src/config.py).
DEFAULT_TEMPLATES ==
    [k \in ActivityKeys |->
        CASE k = "class" -> <<Lit("ShangKeLe"), Lit("UFF0C"), Field("subject")>>
          [] k = "activity" -> <<Lit("HuoDongKaiShi"), Lit("UFF0C"), Field("subject")>>
          [] k = "break" ->
               <<Lit("XiaKeLe"), Lit("UFF0C"), Lit("XiaJieKeShi"), Field("next_subject")>>
          [] k = "free" -> <<Lit("FangXueLe")>>
          [] k = "preparation" ->
               <<Lit("YuBeiLing"), Lit("UFF0C"), Lit("XiaJieKeShi"), Field("next_subject")>>]

\* The template of the second argument of DEFAULT_TEMPLATES.get on
\* line 91: "{title}。{message}".
TitleMessageTemplate == <<Field("title"), Lit("U3002"), Field("message")>>

\* dict.get(key, default)
Get(d, key, default) == IF key \in DOMAIN d THEN d[key] ELSE default

RECURSIVE LStrip(_, _)

\* The text without its leading characters from the set chars.
LStrip(text, chars) ==
    IF text = <<>> THEN <<>>
    ELSE IF Head(text) \in chars THEN LStrip(Tail(text), chars) ELSE text

RECURSIVE RStrip(_, _)

\* The text without its trailing characters from the set chars.
RStrip(text, chars) ==
    IF text = <<>> THEN <<>>
    ELSE IF text[Len(text)] \in chars
         THEN RStrip(SubSeq(text, 1, Len(text) - 1), chars)
         ELSE text

\* str.strip(chars)
Strip(text, chars) == RStrip(LStrip(text, chars), chars)

\* _resolve_activity_key (lines 29-39); "None" when no suffix matches.
resolve_activity_key(provider_id) ==
    IF provider_id = <<>> THEN "None"
    ELSE IF provider_id[Len(provider_id)] \in DOMAIN PROVIDER_SUFFIX_MAP
         THEN PROVIDER_SUFFIX_MAP[provider_id[Len(provider_id)]]
         ELSE "None"

\* The exception one replacement field raises in str.format, "none"
\* when it raises nothing.
FieldError(tok, args) ==
    CASE tok.t = "lit" -> "none"
      [] tok.t = "field" -> IF tok.v \in DOMAIN args THEN "none" ELSE "KeyError"
      [] tok.t = "positional" -> "IndexError"
      [] tok.t = "brace" -> "ValueError"
      [] tok.t = "attr" ->
            IF tok.v \in DOMAIN args THEN "AttributeError" ELSE "KeyError"
      [] tok.t = "index" ->
            IF tok.v \notin DOMAIN args THEN "KeyError"
            ELSE IF args[tok.v] = <<>> THEN "IndexError" ELSE "none"

\* The text one element of a template contributes.
Expand(tok, args) ==
    CASE tok.t = "lit" -> <<tok.v>>
      [] tok.t = "field" -> args[tok.v]
      [] tok.t = "index" -> <<args[tok.v][1]>>
      [] OTHER -> <<>>

RECURSIVE FormatFrom(_, _, _, _)

\* template.format(**args) from element i on: the first field that
\* raises decides the exception.
FormatFrom(i, template, args, acc) ==
    IF i > Len(template) THEN [exc |-> "none", text |-> acc]
    ELSE IF FieldError(template[i], args) # "none"
         THEN [exc |-> FieldError(template[i], args), text |-> <<>>]
         ELSE FormatFrom(i + 1, template, args,
                         acc \o Expand(template[i], args))

\* str.format
Format(template, args) == FormatFrom(1, template, args, <<>>)


\* Lines 88-91 without the substitution of the default for an empty
\* entry.
SelectTemplateKeepsEmpty(templates, key) ==
    Get(IF templates.given /\ DOMAIN templates.map # {}
        THEN templates.map ELSE DEFAULT_TEMPLATES, key, <<>>)

\* Lines 88-91: the map in use is the supplied one unless it is absent
\* or empty; an entry that is missing or empty gives way to the default.
SelectTemplate(templates, key) ==
    LET tmpl_dict == IF templates.given /\ DOMAIN templates.map # {}
                     THEN templates.map ELSE DEFAULT_TEMPLATES
        template == Get(tmpl_dict, key, <<>>)
    IN IF template = <<>>
       THEN Get(DEFAULT_TEMPLATES, key, TitleMessageTemplate)
       ELSE template

\* The value returned for a text: None for the empty text.
TextOrNone(text) == [none |-> text = <<>>, text |-> text]

\* The text of the except branch (line 109).
FallbackText(title, message) ==
    IF message # <<>> THEN title \o <<"U3002">> \o message ELSE title

\* Lines 93-112: format, the two strips, the except clause for KeyError
\* and IndexError; any other exception leaves the function.
TemplateText(template, args) ==
    LET f == Format(template, args) IN
    IF f.exc = "none"
    THEN [raised |-> "none",
          ret |-> TextOrNone(Strip(Strip(f.text, PunctStrip), Whitespace))]
    ELSE IF f.exc \in {"KeyError", "IndexError"}
         THEN [raised |-> "none",
               ret |-> TextOrNone(FallbackText(args["title"], args["message"]))]
         ELSE [raised |-> f.exc, ret |-> TextOrNone(<<>>)]

\* Lines 115-118 with the separator appended to a title that stands
\* alone.
GenericTextAlwaysJoins(title, message) ==
    IF title # <<>> THEN title \o <<"U3002">> \o message ELSE message

\* Lines 115-118: title, separator and message when both are there, else
\* the one that is there, else nothing.
GenericText(title, message) ==
    IF title # <<>> /\ message # <<>> THEN title \o <<"U3002">> \o message
    ELSE IF title # <<>> THEN title ELSE message

\* build_announce_text(payload, templates, runtime_context): the key it
\* resolved, the template it formatted (empty on the generic path), the
\* exception it let out ("none" if it returned) and the value returned.
build_announce_text(payload, templates, runtime_context) ==
    LET provider_id == Strip(payload.provider_id, Whitespace)
        title == Strip(payload.title, Whitespace)
        message == Strip(payload.message, Whitespace)
        args == [n \in FieldNames |->
                    IF n = "title" THEN title
                    ELSE IF n = "message" THEN message
                    ELSE Get(runtime_context, n, <<>>)]
        activity_key == resolve_activity_key(provider_id)
    IN IF activity_key # "None"
       THEN LET template == SelectTemplate(templates, activity_key)
                r == TemplateText(template, args)
            IN [key |-> activity_key, template |-> template,
                raised |-> r.raised, ret |-> r.ret]
       ELSE [key |-> "None", template |-> <<>>, raised |-> "none",
             ret |-> TextOrNone(GenericText(title, message))]

\* Provider identifiers: none, blank, without a known suffix, with each
\* known suffix, with whitespace around, with a known suffix inside.
ProviderIds ==
    {<<>>, <<" ">>, <<"com.x">>, <<".class", "x">>, <<".free">>,
     <<"com.x", ".class", " ">>, <<"TAB", "com.x", ".break">>}
    \cup {<<"com.x", sfx>> : sfx \in DOMAIN PROVIDER_SUFFIX_MAP}

Titles == {<<>>, <<"T">>, <<" ", "T", "TAB">>, <<"TAB">>}

Messages == {<<>>, <<"M">>, <<" ">>}

\* Runtime contexts: absent or empty, with a current and a next
\* subject, with every key present and empty.
RuntimeContexts ==
    {[n \in {} |-> <<>>],
     [n \in {"subject", "next_subject"} |->
         IF n = "subject" THEN <<"Maths">> ELSE <<"English">>],
     [n \in CtxNames |-> <<>>]}

\* User templates: empty, blank, well formed, and one of each malformed
\* kind the format call can meet.
UserTemplates ==
    {<<>>,
     <<Lit(" ")>>,
     <<Lit("Ding"), Lit(" "), Field("title")>>,
     <<Field("subject"), Lit("U3002"), Lit("TAB")>>,
     <<Field("foo")>>,
     <<Positional>>,
     <<LoneBrace>>,
     <<Lit("Ding"), Field("title"), LoneBrace>>,
     <<AttrField("title")>>,
     <<IndexField("title")>>,
     <<Lit("Ding"), Field("foo"), Field("title")>>,
     <<Field("foo"), LoneBrace>>,
     <<AttrField("title"), Field("foo")>>}

\* The templates argument: absent, an empty map, or a map with one key,
\* known or not.
TemplateMaps ==
    {[given |-> g, map |-> [k \in {} |-> <<>>]] : g \in BOOLEAN}
    \cup {[given |-> TRUE, map |-> [k \in {key} |-> t]] :
             key \in ActivityKeys \cup {"other"}, t \in UserTemplates}

NotBuilt == [key |-> "None", template |-> <<>>, raised |-> "none",
             ret |-> TextOrNone(<<>>)]

AnnounceInit ==
    /\ \E pid \in ProviderIds, title \in Titles, message \in Messages,
          tm \in TemplateMaps, ctx \in RuntimeContexts :
          announcer = [pc |-> "ready",
                       payload |-> [provider_id |-> pid, title |-> title,
                                    message |-> message],
                       templates |-> tm,
                       runtime_context |-> ctx,
                       out |-> NotBuilt]
    /\ SpeakerAtRest
    /\ voiceEngine = Off
    /\ factory = Off
    /\ plugin = Off

\* A caller builds the announcement text of a notification.
CallBuildAnnounceText ==
    /\ announcer.pc = "ready"
    /\ announcer' = [announcer EXCEPT
                       !.pc = "built",
                       !.out = build_announce_text(announcer.payload,
                                                   announcer.templates,
                                                   announcer.runtime_context)]
    /\ UNCHANGED <<vars, factory, plugin, voiceEngine>>

AnnounceNext == CallBuildAnnounceText

AnnounceSpec == AnnounceInit /\ [][AnnounceNext]_allVars


\* The trimmed provider identifier of the notification at hand.
TrimmedId == Strip(announcer.payload.provider_id, Whitespace)

TrimmedTitle == Strip(announcer.payload.title, Whitespace)

TrimmedMessage == Strip(announcer.payload.message, Whitespace)

\* The identifier ends in one of the five known suffixes.
KnownSuffix ==
    /\ TrimmedId # <<>>
    /\ TrimmedId[Len(TrimmedId)] \in
          {".class", ".activity", ".break", ".free", ".preparation"}

\* The user's entry for a key; empty when there is no map, no such key
\* or an empty entry.
UserEntry(key) ==
    IF announcer.templates.given /\ key \in DOMAIN announcer.templates.map
    THEN announcer.templates.map[key] ELSE <<>>

\* C13: for an identifier ending in .class, .activity, .break, .free or
\* .preparation the template formatted is that of the corresponding key:
\* the user's entry when it is non-empty, the default of that key
\* otherwise, never an empty template; for every other identifier no
\* template is formatted and the generic construction gives the result.
C13_TemplateSelection ==
    announcer.pc = "built" =>
        IF KnownSuffix
        THEN LET key == PROVIDER_SUFFIX_MAP[TrimmedId[Len(TrimmedId)]] IN
             /\ announcer.out.key = key
             /\ announcer.out.template =
                   (IF UserEntry(key) # <<>> THEN UserEntry(key)
                    ELSE DEFAULT_TEMPLATES[key])
             /\ announcer.out.template # <<>>
        ELSE /\ announcer.out.key = "None"
             /\ announcer.out.template = <<>>
             /\ announcer.out.raised = "none"

\* An empty user entry for "class" gave way to the default template,
\* which was formatted with the current subject.
C13_Witness ==
    /\ announcer.pc = "built"
    /\ announcer.payload.provider_id = <<"com.x", ".class">>
    /\ announcer.templates.given
    /\ "class" \in DOMAIN announcer.templates.map
    /\ announcer.templates.map["class"] = <<>>
    /\ announcer.out.template = DEFAULT_TEMPLATES["class"]
    /\ announcer.out.ret = [none |-> FALSE,
                            text |-> <<"ShangKeLe", "UFF0C", "Maths">>]

\* C14: for every user template, malformed ones included,
\* build_announce_text returns a text or None and lets no exception out.
C14_NoExceptionEscapes ==
    announcer.pc = "built" => announcer.out.raised = "none"

\* C15: for an identifier with no known suffix, the empty one included,
\* the result is title, separator, message when both trimmed fields are
\* non-empty, the non-empty one when exactly one is, None when neither.
C15_GenericJoin ==
    (announcer.pc = "built" /\ ~KnownSuffix) =>
        /\ announcer.out.raised = "none"
        /\ (TrimmedTitle # <<>> /\ TrimmedMessage # <<>>) =>
              announcer.out.ret =
                 [none |-> FALSE,
                  text |-> TrimmedTitle \o <<"U3002">> \o TrimmedMessage]
        /\ (TrimmedTitle # <<>> /\ TrimmedMessage = <<>>) =>
              announcer.out.ret = [none |-> FALSE, text |-> TrimmedTitle]
        /\ (TrimmedTitle = <<>> /\ TrimmedMessage # <<>>) =>
              announcer.out.ret = [none |-> FALSE, text |-> TrimmedMessage]
        /\ (TrimmedTitle = <<>> /\ TrimmedMessage = <<>>) =>
              announcer.out.ret.none

\* An identifier with a known suffix inside but not at its end, and a
\* title with whitespace around it, gave the generic join.
C15_Witness ==
    /\ announcer.pc = "built"
    /\ announcer.payload.provider_id = <<".class", "x">>
    /\ announcer.payload.title = <<" ", "T", "TAB">>
    /\ announcer.payload.message = <<"M">>
    /\ announcer.out.ret = [none |-> FALSE, text |-> <<"T", "U3002", "M">>]

\* C25: for an identifier with a known suffix every text returned is
\* non-empty and neither begins nor ends with a separator ("U3002",
\* "UFF0C", ",", ".", space) or other whitespace; when nothing remains
\* the result is None.
C25_ResultIsClean ==
    (announcer.pc = "built" /\ KnownSuffix /\ announcer.out.raised = "none") =>
        LET text == announcer.out.ret.text IN
        IF announcer.out.ret.none THEN text = <<>>
        ELSE /\ text # <<>>
             /\ text[1] \notin PunctStrip \cup Whitespace
             /\ text[Len(text)] \notin PunctStrip \cup Whitespace

\* The template formatted names a placeholder outside the eight
\* recognized names.
NamesUnknownPlaceholder ==
    \E i \in 1..Len(announcer.out.template) :
        /\ announcer.out.template[i].t \in {"field", "attr", "index"}
        /\ announcer.out.template[i].v \notin FieldNames

\* C26: when the template selected for a known key names a placeholder
\* outside the eight recognized names, the result is title, separator,
\* message if the trimmed message is non-empty, the bare title
\* otherwise, and None when the title is empty too.
C26_UnknownPlaceholderFallsBack ==
    (announcer.pc = "built" /\ KnownSuffix /\ NamesUnknownPlaceholder) =>
        /\ announcer.out.raised = "none"
        /\ announcer.out.ret =
              (IF TrimmedMessage # <<>>
               THEN [none |-> FALSE,
                     text |-> TrimmedTitle \o <<"U3002">> \o TrimmedMessage]
               ELSE [none |-> TrimmedTitle = <<>>, text |-> TrimmedTitle])

\* ---------------------------------------------------------------------
\* The plugin (src/main.py): configuration, Speaker ownership, the
\* notification callback and the settings slots.  The Speaker is seen
\* from outside: the plugin holds one (named by its engine's variant) or
\* None, and speak(text) hands the text over and returns.
\* ---------------------------------------------------------------------

\* What the host environment makes of a variant: usable, not available,
\* or available with a constructor that raises.
VariantStates == {"ok", "unavailable", "ctor_fails"}

\* The factory's view of a plugin environment.
EnvOf(env) ==
    [avail |-> [k \in EngineKinds |->
                   IF env[k] = "unavailable" THEN "no" ELSE "yes"],
     ctor  |-> [k \in EngineKinds |-> env[k] = "ok"]]

\* The keys the template slots are called with: a known one and one that
\* DEFAULT_TEMPLATES does not have.
TemplateKeyInputs == {"class", "other"}

\* The templates the settings page stores: empty, well formed, malformed.
TemplateInputs == {<<>>, <<Lit("Ding"), Field("title")>>, <<LoneBrace>>}

\* The notifications delivered: a class notification, one without a
\* known suffix, and a class notification with empty title and message.
Payloads ==
    {[provider_id |-> <<"com.x", ".class">>, title |-> <<"T">>, message |-> <<"M">>],
     [provider_id |-> <<"com.x">>, title |-> <<"T">>, message |-> <<"M">>],
     [provider_id |-> <<"com.x", ".class">>, title |-> <<>>, message |-> <<>>]}

\* How reading the host's runtime goes: through, failing at once, or
\* failing after the current subject has been read.
RuntimeOutcomes == {"ok", "fails", "fails_after_current"}

\* _build_runtime_context: every key starts empty, the try block fills
\* in what it reaches, and its except clause keeps what was filled in.
build_runtime_context(outcome) ==
    [n \in CtxNames |->
        IF n = "subject" /\ outcome \in {"ok", "fails_after_current"}
        THEN <<"Maths">>
        ELSE IF n = "next_subject" /\ outcome = "ok" THEN <<"English">>
        ELSE <<>>]

\* getTemplate(key)
getTemplate(templates, key) ==
    Get(templates, key, Get(DEFAULT_TEMPLATES, key, <<>>))

\* self._config.templates[key] = template
StoreTemplate(templates, key, template) ==
    [k \in DOMAIN templates \cup {key} |->
        IF k = key THEN template ELSE templates[k]]

\* resetTemplate(key) storing the empty template in place of the default.
ResetStoresEmpty(templates, key) == StoreTemplate(templates, key, <<>>)

\* resetTemplate(key): the default of the key, or the empty template for
\* a key without default, is stored.
resetTemplate(templates, key) ==
    StoreTemplate(templates, key, Get(DEFAULT_TEMPLATES, key, <<>>))

NoText == TextOrNone(<<>>)

\* The record of the latest call into the plugin: the operation, its
\* argument, the exception it let out, the text it handed to speak(),
\* and what create_engine returned to it ("-": not called).
Call(op, arg, raised, said, created) ==
    [op |-> op, arg |-> arg, raised |-> raised, said |-> said,
     created |-> created]

Untouched == [op |-> "none", v |-> <<>>]

\* A template map without entries.
EmptyMap == [k \in {} |-> <<>>]

\* A persisted template value that is None instead of a string.
PyNone == <<[t |-> "pynone", v |-> ""]>>

\* str(val): a string is itself, None becomes the text "None".
Str(val) == IF val = PyNone THEN <<Lit("None")>> ELSE val

\* TTSPluginConfig.__init__(templates=...): every key of
\* DEFAULT_TEMPLATES the map does not have is added with its default.
TTSPluginConfig(templates) ==
    [k \in DOMAIN templates \cup DOMAIN DEFAULT_TEMPLATES |->
        IF k \in DOMAIN templates THEN templates[k] ELSE DEFAULT_TEMPLATES[k]]

\* The model the host hands out for the plugin: none, or one with the
\* engine name, the volume in percent and the template map.
NoModel == [present |-> FALSE, engine |-> "auto", volume |-> 100,
            templates |-> EmptyMap]

Model(name, vol, templates) ==
    [present |-> TRUE, engine |-> name, volume |-> vol,
     templates |-> templates]

\* _load_plugin_config taking the persisted map in place of the
\* configuration's.
LoadReplacesMap(templates, saved) == [k \in DOMAIN saved |-> Str(saved[k])]

\* _load_plugin_config, the templates: each entry of the persisted map
\* is copied over as str(val); the other entries stay.
LoadTemplates(templates, saved) ==
    [k \in DOMAIN templates \cup DOMAIN saved |->
        IF k \in DOMAIN saved THEN Str(saved[k]) ELSE templates[k]]

\* _load_plugin_config, the engine: str(engine or "auto").
LoadEngine(name) == IF name = "" THEN "auto" ELSE name

\* _load_plugin_config, the volume: float(volume or 1.0).
LoadVolume(vol) == IF vol = 0 THEN 100 ELSE vol

\* _save_config: the host's change hook, when the configuration has one,
\* persists the configuration as it stands.
save_config(p) ==
    IF p.hook THEN Model(p.engine, p.volume, p.templates) ELSE p.store

\* The persisted models the sessions of the notification callback and
\* the engine switch start from: none, or one naming an engine.
EngineModels == {NoModel} \cup {Model(e, 100, EmptyMap) : e \in Preferences}

\* The persisted template maps: empty, one key customised, a known and
\* an unknown key blanked, a None value.
SavedTemplateMaps ==
    {EmptyMap,
     [k \in {"class"} |-> <<Lit("Ding"), Field("title")>>],
     [k \in {"free", "other"} |-> <<>>],
     [k \in {"break"} |-> PyNone]}

\* The persisted models the configuration sessions start from.  Volume
\* 0 enters a model through setVolume only.
SavedModels ==
    {NoModel} \cup {Model(e, v, m) : e \in {"", "edge"}, v \in {50, 100},
                                     m \in SavedTemplateMaps}

\* The volumes setVolume is called with, in percent.
PluginVolumeInputs == {-50, 0, 50, 100, 150}

\* The voice list in the cache: "empty", or the name of the variant
\* whose voices it holds.
VoicesOf(name, lists) ==
    IF name \in EngineKinds /\ lists THEN name ELSE "empty"

IdleLoader == [pc |-> "idle", name |-> "-"]

\* Plugin.__init__ in a host with the given environment and persisted
\* model: default configuration, no Speaker, empty voice cache.
Constructed(env, store) ==
    [pc |-> "constructed",
     env |-> env,
     store |-> store,
     hook |-> FALSE,
     engine |-> "auto",
     volume |-> 100,
     speaker |-> "None",
     speakerVolume |-> 0,
     templates |-> TTSPluginConfig(EmptyMap),
     cache |-> "empty",
     loading |-> FALSE,
     loader |-> IdleLoader,
     hist |-> [k \in TemplateKeyInputs |-> Untouched],
     last |-> Call("init", "-", "none", NoText, "-")]

PluginStart(envs, models) ==
    /\ \E env \in envs, store \in models : plugin = Constructed(env, store)
    /\ SpeakerAtRest
    /\ voiceEngine = Off
    /\ factory = Off
    /\ announcer = Off

PluginInit == PluginStart([EngineKinds -> VariantStates], EngineModels)

\* _init_speaker: the old Speaker is shut down and dropped, and a new
\* one is made around the engine create_engine returns, if any.
init_speaker(preference, env) == create_engine(preference, EnvOf(env)).result

\* Speaker(engine, volume=self._config.volume)
SpeakerVolume(created, vol) == IF created = "None" THEN 0 ELSE Clamp(vol)

\* on_load: the persisted model, if the host has one, replaces engine
\* and volume and is copied over the templates; the configuration is
\* registered with the host, which gives it its change hook; then
\* _init_speaker.
OnLoad(registered) ==
    /\ plugin.pc = "constructed"
    /\ LET model == plugin.store
           name == IF model.present THEN LoadEngine(model.engine)
                   ELSE plugin.engine
           vol == IF model.present THEN LoadVolume(model.volume)
                  ELSE plugin.volume
           templates == IF model.present
                        THEN LoadTemplates(plugin.templates, model.templates)
                        ELSE plugin.templates
           created == init_speaker(name, plugin.env)
       IN plugin' = [plugin EXCEPT
                       !.pc = "loaded",
                       !.engine = name,
                       !.volume = vol,
                       !.templates = templates,
                       !.hook = registered,
                       !.speaker = created,
                       !.speakerVolume = SpeakerVolume(created, vol),
                       !.last = Call("on_load", name, "none", NoText, created)]
    /\ UNCHANGED <<vars, factory, announcer, voiceEngine>>

\* on_unload: the Speaker is shut down and dropped.
OnUnload ==
    /\ plugin.pc = "loaded"
    /\ plugin.loader.pc = "idle"
    /\ plugin' = [plugin EXCEPT
                    !.pc = "unloaded",
                    !.speaker = "None",
                    !.speakerVolume = 0,
                    !.last = Call("on_unload", "-", "none", NoText, "-")]
    /\ UNCHANGED <<vars, factory, announcer, voiceEngine>>

\* The host starts again and constructs the plugin anew; what was
\* persisted is what the new session finds.
PluginConstruct ==
    /\ plugin.pc = "unloaded"
    /\ plugin' = Constructed(plugin.env, plugin.store)
    /\ UNCHANGED <<vars, factory, announcer, voiceEngine>>

\* setEngine(engine_name): nothing when the name is the configured one;
\* else the name is stored and saved, _init_speaker runs and the voice
\* cache is emptied.
SetEngine(name) ==
    /\ plugin.pc = "loaded"
    /\ IF name = plugin.engine
       THEN plugin' = [plugin EXCEPT
                         !.last = Call("setEngine", name, "none", NoText, "-")]
       ELSE LET created == init_speaker(name, plugin.env)
            IN plugin' = [plugin EXCEPT
                            !.engine = name,
                            !.store = save_config([plugin EXCEPT !.engine = name]),
                            !.speaker = created,
                            !.speakerVolume = SpeakerVolume(created, plugin.volume),
                            !.cache = "empty",
                            !.last = Call("setEngine", name, "none", NoText,
                                          created)]
    /\ UNCHANGED <<vars, factory, announcer, voiceEngine>>

\* setVolume(volume): the clamped volume is stored and saved, and
\* handed to the Speaker if there is one.
setVolume(v) ==
    /\ plugin.pc = "loaded"
    /\ plugin' = [plugin EXCEPT
                    !.volume = Clamp(v),
                    !.store = save_config([plugin EXCEPT !.volume = Clamp(v)]),
                    !.speakerVolume = SpeakerVolume(plugin.speaker, Clamp(v)),
                    !.last = Call("setVolume", "-", "none", NoText, "-")]
    /\ UNCHANGED <<vars, factory, announcer, voiceEngine>>

\* setTemplate(key, template)
SetTemplate(key, template) ==
    /\ plugin.pc = "loaded"
    /\ LET templates == StoreTemplate(plugin.templates, key, template)
       IN plugin' = [plugin EXCEPT
                       !.templates = templates,
                       !.store = save_config([plugin EXCEPT !.templates = templates]),
                       !.hist[key] = [op |-> "set", v |-> template],
                       !.last = Call("setTemplate", key, "none", NoText, "-")]
    /\ UNCHANGED <<vars, factory, announcer, voiceEngine>>

\* resetTemplate(key)
ResetTemplate(key) ==
    /\ plugin.pc = "loaded"
    /\ LET templates == resetTemplate(plugin.templates, key)
       IN plugin' = [plugin EXCEPT
                       !.templates = templates,
                       !.store = save_config([plugin EXCEPT !.templates = templates]),
                       !.hist[key] = [op |-> "reset", v |-> <<>>],
                       !.last = Call("resetTemplate", key, "none", NoText, "-")]
    /\ UNCHANGED <<vars, factory, announcer, voiceEngine>>

\* testSpeak(text): speak(text) if there is a Speaker and a text.
TestSpeak(text) ==
    /\ plugin.pc = "loaded"
    /\ plugin' = [plugin EXCEPT
                    !.last = Call("testSpeak", "-", "none",
                                  IF plugin.speaker # "None" THEN TextOrNone(text)
                                  ELSE NoText,
                                  "-")]
    /\ UNCHANGED <<vars, factory, announcer, voiceEngine>>

\* _on_notification_pushed(payload): return when there is no Speaker;
\* else build the runtime context and the text, outside any try, and
\* speak the text if there is one.
OnNotificationPushed(payload, outcome) ==
    /\ plugin.pc = "loaded"
    /\ LET out == build_announce_text(payload,
                                      [given |-> TRUE, map |-> plugin.templates],
                                      build_runtime_context(outcome))
       IN plugin' = [plugin EXCEPT
                       !.last =
                          IF plugin.speaker = "None"
                          THEN Call("notify", "-", "none", NoText, "-")
                          ELSE IF out.raised # "none"
                               THEN Call("notify", "-", out.raised, NoText, "-")
                               ELSE Call("notify", "-", "none", out.ret, "-")]
    /\ UNCHANGED <<vars, factory, announcer, voiceEngine>>

\* The host environment changes under the running plugin: a package is
\* installed or removed, a backend starts or stops constructing.
EnvironmentChanges(k, st) ==
    /\ plugin.pc = "loaded"
    /\ plugin.env[k] # st
    /\ plugin' = [plugin EXCEPT
                    !.env[k] = st,
                    !.last = Call("env", k, "none", NoText, "-")]
    /\ UNCHANGED <<vars, factory, announcer, voiceEngine>>

\* refreshVoiceList: nothing while a refresh is under way; else the
\* loading flag is set and the loader thread is started.
RefreshVoiceList ==
    /\ plugin.pc = "loaded"
    /\ IF plugin.loading
       THEN plugin' = [plugin EXCEPT
                         !.last = Call("refreshVoiceList", "-", "none", NoText, "-")]
       ELSE plugin' = [plugin EXCEPT
                         !.loading = TRUE,
                         !.loader = [pc |-> "started", name |-> "-"],
                         !.last = Call("refreshVoiceList", "-", "none", NoText, "-")]
    /\ UNCHANGED <<vars, factory, announcer, voiceEngine>>

\* The loader thread reads the engine name: the configured one, or the
\* Speaker's when the configured one is "auto" and there is a Speaker.
LoaderReadName ==
    /\ plugin.loader.pc = "started"
    /\ plugin' = [plugin EXCEPT
                    !.loader = [pc |-> "named",
                                name |-> IF plugin.engine = "auto"
                                            /\ plugin.speaker # "None"
                                         THEN plugin.speaker
                                         ELSE plugin.engine]]
    /\ UNCHANGED <<vars, factory, announcer, voiceEngine>>

\* The loader thread writes the cache: the empty list for no name or
\* "auto", else what list_voices_for_engine returns, which is the empty
\* list for a name outside the registry and for a variant whose
\* list_voices fails.
LoaderWrite(lists) ==
    /\ plugin.loader.pc = "named"
    /\ plugin' = [plugin EXCEPT
                    !.cache = IF plugin.loader.name \in {"", "auto"}
                              THEN "empty"
                              ELSE VoicesOf(plugin.loader.name, lists),
                    !.loader.pc = "written"]
    /\ UNCHANGED <<vars, factory, announcer, voiceEngine>>

\* The loader thread's finally clause: the loading flag is cleared.
LoaderFinish ==
    /\ plugin.loader.pc = "written"
    /\ plugin' = [plugin EXCEPT !.loading = FALSE, !.loader = IdleLoader]
    /\ UNCHANGED <<vars, factory, announcer, voiceEngine>>

PluginNext ==
    \/ OnLoad(TRUE)
    \/ \E name \in Preferences : SetEngine(name)
    \/ \E key \in TemplateKeyInputs, t \in TemplateInputs : SetTemplate(key, t)
    \/ \E key \in TemplateKeyInputs : ResetTemplate(key)
    \/ \E text \in {<<>>, <<"hello">>} : TestSpeak(text)
    \/ \E payload \in Payloads, outcome \in RuntimeOutcomes :
          OnNotificationPushed(payload, outcome)
    \/ \E k \in EngineKinds, st \in VariantStates : EnvironmentChanges(k, st)

PluginSpec == PluginInit /\ [][PluginNext]_allVars

\* Configuration sessions: what is persisted, loaded and changed through
\* the settings slots, over restarts of the host.
ConfigEnvs ==
    {[k \in EngineKinds |-> "ok"], [k \in EngineKinds |-> "unavailable"]}

ConfigInit == PluginStart(ConfigEnvs, SavedModels)

ConfigNext ==
    \/ \E registered \in BOOLEAN : OnLoad(registered)
    \/ \E v \in PluginVolumeInputs : setVolume(v)
    \/ \E key \in TemplateKeyInputs, t \in TemplateInputs : SetTemplate(key, t)
    \/ \E key \in TemplateKeyInputs : ResetTemplate(key)
    \/ OnUnload
    \/ PluginConstruct

ConfigSpec == ConfigInit /\ [][ConfigNext]_allVars

\* Voice list sessions: the settings page refreshes the voice list while
\* the user switches engines.
VoiceListEnvs ==
    {[k \in EngineKinds |-> "ok"],
     [k \in EngineKinds |-> IF k = "edge" THEN "unavailable" ELSE "ok"]}

VoiceListInit == PluginStart(VoiceListEnvs, {NoModel})

VoiceListNext ==
    \/ OnLoad(TRUE)
    \/ \E name \in Preferences : SetEngine(name)
    \/ RefreshVoiceList
    \/ LoaderReadName
    \/ \E lists \in BOOLEAN : LoaderWrite(lists)
    \/ LoaderFinish

VoiceListSpec == VoiceListInit /\ [][VoiceListNext]_allVars


\* C16: whatever the payload, the templates and the outcome of reading
\* the runtime, _on_notification_pushed returns normally: no exception
\* leaves the callback.
C16_CallbackNeverRaises ==
    plugin.last.op = "notify" => plugin.last.raised = "none"

\* The default of a key for the template slots: empty for a key that
\* DEFAULT_TEMPLATES does not have.
DefaultOf(key) == IF key \in ActivityKeys THEN DEFAULT_TEMPLATES[key] ELSE <<>>

\* C17: after any sequence of setTemplate and resetTemplate calls,
\* getTemplate(K) is the value of the latest setTemplate(K, v) when no
\* resetTemplate(K) came after it, and the default of K when the latest
\* of the two calls for K was resetTemplate(K).
C17_TemplateRoundTrip ==
    plugin.pc = "loaded" =>
        \A key \in TemplateKeyInputs :
            /\ plugin.hist[key].op = "set" =>
                  getTemplate(plugin.templates, key) = plugin.hist[key].v
            /\ plugin.hist[key].op = "reset" =>
                  getTemplate(plugin.templates, key) = DefaultOf(key)

\* A custom template stands for the unknown key while "class", last
\* reset, reads as its default again.
C17_Witness ==
    /\ plugin.pc = "loaded"
    /\ plugin.hist["class"].op = "reset"
    /\ plugin.hist["other"] = [op |-> "set", v |-> <<Lit("Ding"), Field("title")>>]
    /\ plugin.last.op = "resetTemplate"
    /\ getTemplate(plugin.templates, "class") = DEFAULT_TEMPLATES["class"]
    /\ getTemplate(plugin.templates, "other") = <<Lit("Ding"), Field("title")>>

\* The engine name can be served in the environment: it names a usable
\* variant, or it is "auto" and some variant is usable.
Servable(name, env) ==
    \/ name \in EngineKinds /\ env[name] = "ok"
    \/ name = "auto" /\ \E k \in EngineKinds : env[k] = "ok"

\* C19: when create_engine returned None, at load or in setEngine, the
\* plugin holds no Speaker; without a Speaker every notification and
\* every testSpeak returns without speaking and without raising; and a
\* setEngine naming an engine that is available then leaves the plugin
\* with a Speaker.
C19_NoEngineIsGraceful ==
    /\ (plugin.last.op \in {"on_load", "setEngine"} /\ plugin.last.created = "None")
          => plugin.speaker = "None"
    /\ (plugin.last.op \in {"notify", "testSpeak"} /\ plugin.speaker = "None")
          => (plugin.last.raised = "none" /\ plugin.last.said.none)
    /\ (plugin.last.op = "setEngine" /\ Servable(plugin.last.arg, plugin.env))
          => plugin.speaker # "None"


\* C27: in every configuration state - after construction from any
\* persisted template map, after loading the persisted model, and after
\* any sequence of setTemplate and resetTemplate calls - the template
\* map has an entry for each of the five activity keys, and a key the
\* persisted map omitted holds the default text of that key.
C27_TemplateKeysComplete ==
    /\ \A m \in SavedTemplateMaps :
          /\ ActivityKeys \subseteq DOMAIN TTSPluginConfig(m)
          /\ \A k \in ActivityKeys \ DOMAIN m :
                TTSPluginConfig(m)[k] = DEFAULT_TEMPLATES[k]
    /\ plugin.pc \in {"constructed", "loaded", "unloaded"} =>
          /\ ActivityKeys \subseteq DOMAIN plugin.templates
          /\ plugin.last.op = "on_load" =>
                \A k \in ActivityKeys \ DOMAIN plugin.store.templates :
                    plugin.templates[k] = DEFAULT_TEMPLATES[k]

\* A persisted map with the one key "class" has been loaded: "class"
\* holds the persisted template, "free" its default.
C27_Witness ==
    /\ plugin.pc = "loaded"
    /\ plugin.last.op = "on_load"
    /\ plugin.store.present
    /\ DOMAIN plugin.store.templates = {"class"}
    /\ plugin.templates["class"] = <<Lit("Ding"), Field("title")>>
    /\ plugin.templates["free"] = DEFAULT_TEMPLATES["free"]

\* C28: a volume stored with setVolume and persisted is the volume of
\* the configuration after the plugin has loaded the persisted model
\* again, 0 and 100 percent included, and the Speaker made at load has
\* that volume.
C28_VolumeRoundTrip ==
    (plugin.pc = "loaded" /\ plugin.last.op = "on_load" /\ plugin.store.present)
        => /\ plugin.volume = plugin.store.volume
           /\ plugin.speaker # "None" =>
                 plugin.speakerVolume = plugin.store.volume

\* The engine whose voices the settings page shows: the configured one,
\* or the Speaker's under "auto".
EffectiveEngine(p) ==
    IF p.engine = "auto" /\ p.speaker # "None" THEN p.speaker ELSE p.engine

\* C29: once setEngine has emptied the voice cache, no step puts the
\* voice list of an engine other than the one now in effect into it: a
\* loader thread started before the switch does not write the voices of
\* the engine configured before.
C29_NoStaleVoices ==
    [][(plugin.pc = "loaded" /\ plugin'.cache # plugin.cache
           /\ plugin'.cache # "empty")
          => plugin'.cache = EffectiveEngine(plugin)]_allVars


\* ---------------------------------------------------------------------
\* Voice selection of the engine variants (src/engines/edge.py,
\* winsdk_engine.py, pyttsx3_engine.py).
\* ---------------------------------------------------------------------

\* EdgeTTSEngine.DEFAULT_VOICE
DEFAULT_VOICE == "zh-CN-XiaoxiaoNeural"

\* The voices the backends offer: an identifier and a display name each.
VoiceCatalogue == {[id |-> "zh-CN-XiaoxiaoNeural", name |-> "Xiaoxiao"],
                   [id |-> "voice-2", name |-> "Voice Two"]}

\* The identifiers and names by which a voice is known to an engine.
KnownVoiceIds == {v.id : v \in VoiceCatalogue} \cup {v.name : v \in VoiceCatalogue}

\* The arguments of the constructors and of set_voice: none, the
\* identifier and the display name of a voice, an identifier of no voice.
VoiceInputs == {"", "zh-CN-XiaoxiaoNeural", "Xiaoxiao", "voice-2", "Voice Two",
                "no-such-voice"}

\* EdgeTTSEngine.set_voice: the identifier, whatever it is, becomes the
\* current voice; the empty one stands for the default.
EdgeSetVoice(current, voice_id) ==
    IF voice_id = "" THEN DEFAULT_VOICE ELSE voice_id

\* WinRTEngine._apply_voice: a voice matched by identifier or display
\* name is selected and the argument recorded; with no match, or with a
\* backend error, nothing changes.
WinRTApplyVoice(current, voice_id, fails) ==
    IF ~fails /\ \E v \in VoiceCatalogue : v.id = voice_id \/ v.name = voice_id
    THEN voice_id ELSE current

\* Pyttsx3Engine._apply_voice: as above, the identifier of the matched
\* voice being recorded.
Pyttsx3ApplyVoice(current, voice_id, fails) ==
    IF ~fails /\ \E v \in VoiceCatalogue : v.id = voice_id \/ v.name = voice_id
    THEN (CHOOSE v \in VoiceCatalogue : v.id = voice_id \/ v.name = voice_id).id
    ELSE current

\* The voice selected at the backend object (synthesizer.voice, the
\* "voice" property) after _apply_voice; edge has no such object.
BackendVoice(kind, selected, voice_id, fails) ==
    IF kind # "edge" /\ ~fails
       /\ \E v \in VoiceCatalogue : v.id = voice_id \/ v.name = voice_id
    THEN (CHOOSE v \in VoiceCatalogue : v.id = voice_id \/ v.name = voice_id).id
    ELSE selected

\* set_voice(voice_id) of the variant: the current voice afterwards.
EngineSetVoice(kind, current, voice_id, fails) ==
    CASE kind = "edge" -> EdgeSetVoice(current, voice_id)
      [] kind = "winrt" -> WinRTApplyVoice(current, voice_id, fails)
      [] kind = "pyttsx3" -> Pyttsx3ApplyVoice(current, voice_id, fails)

\* The current voice after the constructor: edge takes the argument or
\* the default; the other two record the argument and, if there is
\* one, apply it.
EngineInitVoice(kind, voice, fails) ==
    IF kind = "edge" THEN EdgeSetVoice(DEFAULT_VOICE, voice)
    ELSE IF voice = "" THEN ""
    ELSE EngineSetVoice(kind, voice, voice, fails)

VoiceInit ==
    /\ \E kind \in EngineKinds, voice \in VoiceInputs, fails \in BOOLEAN :
          voiceEngine = [pc |-> "built", kind |-> kind,
                         voice |-> EngineInitVoice(kind, voice, fails),
                         backend |-> BackendVoice(kind, "", voice, fails),
                         last |-> [op |-> "init", id |-> voice, before |-> "",
                                   raised |-> FALSE]]
    /\ SpeakerAtRest
    /\ factory = Off
    /\ announcer = Off
    /\ plugin = Off

\* set_voice(voice_id) on the instance; the backend may fail under it.
\* get_current_voice() returns the voice field.
SetVoiceCall(voice_id, fails) ==
    /\ voiceEngine.pc = "built"
    /\ voiceEngine' = [voiceEngine EXCEPT
                         !.voice = EngineSetVoice(voiceEngine.kind,
                                                  voiceEngine.voice, voice_id, fails),
                         !.backend = BackendVoice(voiceEngine.kind,
                                                  voiceEngine.backend, voice_id, fails),
                         !.last = [op |-> "set_voice", id |-> voice_id,
                                   before |-> voiceEngine.voice,
                                   raised |-> FALSE]]
    /\ UNCHANGED <<vars, factory, announcer, plugin>>

VoiceNext == \E voice_id \in VoiceInputs, fails \in BOOLEAN : SetVoiceCall(voice_id, fails)

VoiceSpec == VoiceInit /\ [][VoiceNext]_allVars

\* C21: for every variant, set_voice with an identifier that names no
\* voice known to the engine does not raise and leaves
\* get_current_voice() at the voice that was current before the call.
C21_UnknownVoiceIsIgnored ==
    (voiceEngine.pc = "built" /\ voiceEngine.last.op = "set_voice"
       /\ voiceEngine.last.id \notin KnownVoiceIds \cup {""}) =>
        /\ ~voiceEngine.last.raised
        /\ voiceEngine.voice = voiceEngine.last.before

====
